---------------------------- MODULE Spec2Model ----------------------------
(***************************************************************************)
(* Model of the caption renderer of andreaaazo/video-captioning:           *)
(*   src/src/rendering/text_renderer.py  (TextRenderer)                    *)
(*   src/src/cache/bitmap_cache.py       (BitmapCache)                     *)
(* Arrays are functions over 0-based <<row, col>> pairs, pixels are        *)
(* 4-tuples of channel values, 1/64-unit font metrics are integers.        *)
(***************************************************************************)
EXTENDS Integers, Sequences, FiniteSets, TLC

(***************************************************************************)
(* Bounds of the model.                                                    *)
(***************************************************************************)
MaxLen == 2
MaxCalls == 2
MaxSize == 1
MaxCoord == 4
MaxDim == 2
MaxWords == 2
MaxTime == 4
MaxFrames == 4

Chars == {"A", "B"}
NoChar == "none"
(* the keys (previous_char, current_char) get_kerning can be called with *)
KerningKeys == (Chars \cup {NoChar}) \X Chars
Threads == {1, 2}
Renderers == {1, 2}
Sizes == 1..MaxSize

Max(a, b) == IF a >= b THEN a ELSE b
Min(a, b) == IF a <= b THEN a ELSE b

(* a conversion that drops the fraction, rounding toward zero *)
Shr6TowardZero(v) == IF v >= 0 THEN v \div 64 ELSE -((-v) \div 64)
(* Python's x >> 6 on an int: floor division by 64 (TLA+ \div floors). *)
Shr6(v) == v \div 64

(***************************************************************************)
(* The font seen through freetype's Face: per-character glyph metrics and  *)
(* pairwise kerning, in the units freetype reports (advance and kerning in *)
(* 1/64 pixel, bitmap_top/bitmap_left/rows/width in pixels).  The renderer *)
(* only reads them; the values are a fixture.                              *)
(*   A: an upright stem sitting on the baseline                            *)
(*   B: a short mark floating above the baseline                          *)
(***************************************************************************)
Advance(c) == CASE c = "A" -> 140 [] c = "B" -> 100 [] OTHER -> 0
BitmapTop(c) == CASE c = "A" -> 2 [] c = "B" -> 3 [] OTHER -> 0
BitmapLeft(c) == CASE c = "A" -> 0 [] c = "B" -> 0 [] OTHER -> 0
BitmapRows(c) == CASE c = "A" -> 2 [] c = "B" -> 1 [] OTHER -> 0
BitmapWidth(c) == CASE c = "A" -> 1 [] c = "B" -> 2 [] OTHER -> 0
(* bitmap.buffer reshaped to rows x width: the coverage (alpha) mask *)
Buffer(c) ==
  CASE c = "A" -> (<<0, 0>> :> 255 @@ <<1, 0>> :> 128)
    [] c = "B" -> (<<0, 0>> :> 255 @@ <<0, 1>> :> 0)
    [] OTHER -> <<>>
(* face.get_kerning(prev, curr).x *)
FaceKerning(p, c) == IF p = "A" /\ c = "B" THEN -1 ELSE 0

(***************************************************************************)
(* The font files a renderer can be constructed on (Face(font_path)).      *)
(* File 1 is the font above; file 2 is a bolder cut of the same design:    *)
(* the same advances, tops and bitmap sizes, a heavier coverage mask and a *)
(* left bearing of one pixel.                                              *)
(***************************************************************************)
FontFiles == {1, 2}
BoldBuffer(c) ==
  CASE c = "A" -> (<<0, 0>> :> 255 @@ <<1, 0>> :> 255)
    [] c = "B" -> (<<0, 0>> :> 255 @@ <<0, 1>> :> 128)
    [] OTHER -> <<>>
GlyphBuffer(f, c) == IF f = 1 THEN Buffer(c) ELSE BoldBuffer(c)
GlyphLeft(f, c) == IF f = 1 THEN BitmapLeft(c) ELSE 1

(***************************************************************************)
(* get_bitmap_3d: the RGBA glyph bitmap, colour channels the text colour,  *)
(* channel 3 the coverage mask.  Channels are numbered from 0 in the code  *)
(* and tuples from 1 here, so channel k of a pixel is px[k + 1].           *)
(***************************************************************************)
TEXT_COLOR == 255
ALPHA_CHANNEL == 3

get_bitmap_3d(rows, width, buf) ==
  [rows |-> rows, width |-> width,
   px |-> [p \in DOMAIN buf |-> <<TEXT_COLOR, TEXT_COLOR, TEXT_COLOR, buf[p]>>]]

Rasterize(c) == get_bitmap_3d(BitmapRows(c), BitmapWidth(c), Buffer(c))

(***************************************************************************)
(* numpy basic slicing a[start:stop] of an axis of length n: a negative    *)
(* bound counts from the end, both bounds are clipped to 0..n.             *)
(***************************************************************************)
SliceBound(v, n) == IF v < 0 THEN Max(v + n, 0) ELSE Min(v, n)
SliceLo(start, stop, n) == SliceBound(start, n)
SliceLen(start, stop, n) == Max(0, SliceBound(stop, n) - SliceBound(start, n))

(* numpy broadcasting of two axis lengths *)
Broadcastable(a, b) == a = b \/ a = 1 \/ b = 1
BroadcastLen(a, b) == IF a = 1 THEN b ELSE a

(* np.uint8((1 - a/255.0) * bg + (a/255.0) * fg): truncation of the blend.  *)
(* For the coverage values of the fixture (0, 128, 255) the float64 result *)
(* truncates to the integer quotient below.                                *)
(* a blend in 1/256 fixed point *)
BlendChannelShifted(bg, fg, a) == ((256 - a) * bg + a * fg) \div 256
(* a blend with the two weights exchanged *)
BlendChannelSwapped(bg, fg, a) == (a * bg + (255 - a) * fg) \div 255
BlendChannel(bg, fg, a) == ((255 - a) * bg + a * fg) \div 255

(* a blend that also stores the glyph's alpha in the image *)
BlendPixelWithAlpha(bgp, fgp) ==
  <<BlendChannel(bgp[1], fgp[1], fgp[ALPHA_CHANNEL + 1]),
    BlendChannel(bgp[2], fgp[2], fgp[ALPHA_CHANNEL + 1]),
    BlendChannel(bgp[3], fgp[3], fgp[ALPHA_CHANNEL + 1]),
    fgp[ALPHA_CHANNEL + 1]>>
BlendPixel(bgp, fgp) ==
  <<BlendChannel(bgp[1], fgp[1], fgp[ALPHA_CHANNEL + 1]),
    BlendChannel(bgp[2], fgp[2], fgp[ALPHA_CHANNEL + 1]),
    BlendChannel(bgp[3], fgp[3], fgp[ALPHA_CHANNEL + 1]),
    bgp[4]>>

(* pixel_alpha_blending(bg_pixel, fg_pixel): the blended colour with an     *)
(* alpha of 255 appended                                                   *)
pixel_alpha_blending(bgp, fgp) ==
  <<BlendChannel(bgp[1], fgp[1], fgp[ALPHA_CHANNEL + 1]),
    BlendChannel(bgp[2], fgp[2], fgp[ALPHA_CHANNEL + 1]),
    BlendChannel(bgp[3], fgp[3], fgp[ALPHA_CHANNEL + 1]),
    255>>

(***************************************************************************)
(* apply_bitmap_to_image(image, bitmap, x, y).  An image is                *)
(* [h, w, px]; the result is [err, image]: err is TRUE when numpy raises   *)
(* ValueError (operands not broadcastable, or concatenate's shapes differ) *)
(* and then the image is as before.                                        *)
(***************************************************************************)
(* a clip that takes the glyph's slice from its top-left corner *)
ClipGeomUnshifted(image_h, image_w, h, w, x, y) ==
  LET x0 == Max(x, 0)
      x1 == Min(x + w, image_w)
      y0 == Max(y, 0)
      y1 == Min(y + h, image_h)
  IN [ir0 |-> SliceLo(y0, y1, image_h), hi |-> SliceLen(y0, y1, image_h),
      ic0 |-> SliceLo(x0, x1, image_w), wi |-> SliceLen(x0, x1, image_w),
      br0 |-> SliceLo(0, y1 - y0, h), hb |-> SliceLen(0, y1 - y0, h),
      bc0 |-> SliceLo(0, x1 - x0, w), wb |-> SliceLen(0, x1 - x0, w)]
ClipGeom(image_h, image_w, h, w, x, y) ==
  LET x0 == Max(x, 0)
      x1 == Min(x + w, image_w)
      y0 == Max(y, 0)
      y1 == Min(y + h, image_h)
  IN [ir0 |-> SliceLo(y0, y1, image_h), hi |-> SliceLen(y0, y1, image_h),
      ic0 |-> SliceLo(x0, x1, image_w), wi |-> SliceLen(x0, x1, image_w),
      br0 |-> SliceLo(y0 - y, y1 - y, h), hb |-> SliceLen(y0 - y, y1 - y, h),
      bc0 |-> SliceLo(x0 - x, x1 - x, w), wb |-> SliceLen(x0 - x, x1 - x, w)]

(* the shapes numpy accepts: (1-alpha)*img_slice broadcasts, and the       *)
(* blended slice concatenates with the image slice's 4th channel           *)
ShapesOk(g) ==
  /\ Broadcastable(g.hb, g.hi) /\ Broadcastable(g.wb, g.wi)
  /\ BroadcastLen(g.hb, g.hi) = g.hi
  /\ BroadcastLen(g.wb, g.wi) = g.wi

apply_bitmap_to_image(image, bitmap, x, y) ==
  LET g == ClipGeom(image.h, image.w, bitmap.rows, bitmap.width, x, y)
      Src(r, c) ==
        bitmap.px[<<g.br0 + (IF g.hb = 1 THEN 0 ELSE r - g.ir0),
                    g.bc0 + (IF g.wb = 1 THEN 0 ELSE c - g.ic0)>>]
      InSlice(r, c) ==
        /\ r >= g.ir0 /\ r < g.ir0 + g.hi
        /\ c >= g.ic0 /\ c < g.ic0 + g.wi
  IN IF ~ShapesOk(g)
       THEN [err |-> TRUE, image |-> image]
       ELSE [err |-> FALSE,
             image |-> [image EXCEPT !.px =
                 [p \in DOMAIN image.px |->
                    IF InSlice(p[1], p[2])
                      THEN BlendPixel(image.px[p], Src(p[1], p[2]))
                      ELSE image.px[p]]]]

(***************************************************************************)
(* The cache mapping self.cache.cache: a Python dict, kept as the sequence *)
(* of its <<key, value>> items in insertion order.  A key is               *)
(* <<char, char_size>>, a value <<bitmap_3d, left, top>>.                  *)
(***************************************************************************)
CacheKeys(m) == {m[j][1] : j \in 1..Len(m)}
CacheHas(m, k) == k \in CacheKeys(m)
CacheIndex(m, k) == CHOOSE j \in 1..Len(m) : m[j][1] = k
CacheGet(m, k) == m[CacheIndex(m, k)][2]
(* m[k] = v: replaces the value of a present key, appends a new one *)
CachePut(m, k, v) ==
  IF CacheHas(m, k)
    THEN [m EXCEPT ![CacheIndex(m, k)] = <<k, v>>]
    ELSE Append(m, <<k, v>>)

(***************************************************************************)
(* pickle: the stream is a sequence of opcodes.  dump writes the protocol  *)
(* header, one frame holding the dict (EMPTY_DICT, then MARK item...       *)
(* SETITEMS when there are items) and STOP.  load runs the unpickler's     *)
(* stack machine: running out of input where an opcode is expected raises  *)
(* EOFError, a frame shorter than its header says, an unknown opcode or a  *)
(* stack fault raise UnpicklingError.                                      *)
(***************************************************************************)
NoFile == [exists |-> FALSE, data |-> <<>>]
FileOf(data) == [exists |-> TRUE, data |-> data]
Tok(op) == <<op>>
Frame(n) == <<"FRAME", n>>
Item(kv) == <<"ITEM", kv[1], kv[2]>>

RECURSIVE DumpItems(_)
DumpItems(m) == IF m = <<>> THEN <<>> ELSE <<Item(Head(m))>> \o DumpItems(Tail(m))

DumpBody(m) ==
  <<Tok("EMPTY_DICT")>>
    \o (IF m = <<>> THEN <<>>
        ELSE <<Tok("MARK")>> \o DumpItems(m) \o <<Tok("SETITEMS")>>)
    \o <<Tok("STOP")>>

pickle_dump(m) == <<Tok("PROTO"), Frame(Len(DumpBody(m)))>> \o DumpBody(m)

RECURSIVE SetItems(_, _)
SetItems(d, items) ==
  IF items = <<>> THEN d
  ELSE SetItems(CachePut(d, Head(items)[1], Head(items)[2]), Tail(items))

RECURSIVE Unpickle(_, _, _, _, _)
Unpickle(f, pos, st, d, pending) ==
  IF pos > Len(f) THEN [exc |-> "EOFError", obj |-> <<>>, foreign |-> FALSE]
  ELSE LET t == f[pos]
           op == t[1]
           Fail == [exc |-> "UnpicklingError", obj |-> <<>>, foreign |-> FALSE]
       IN CASE op = "PROTO" -> Unpickle(f, pos + 1, st, d, pending)
            [] op = "FRAME" ->
                 IF Len(f) - pos < t[2] THEN Fail
                 ELSE Unpickle(f, pos + 1, st, d, pending)
            [] op = "EMPTY_DICT" -> Unpickle(f, pos + 1, "dict", <<>>, <<>>)
            [] op = "MARK" ->
                 IF st = "dict" THEN Unpickle(f, pos + 1, "mark", d, <<>>)
                 ELSE Unpickle(f, pos + 1, "other", d, <<>>)
            [] op = "ITEM" ->
                 IF st = "mark"
                   THEN Unpickle(f, pos + 1, st, d, Append(pending, <<t[2], t[3]>>))
                   ELSE Unpickle(f, pos + 1, "other", d, pending)
            [] op = "SETITEMS" ->
                 IF st = "mark"
                   THEN Unpickle(f, pos + 1, "dict", SetItems(d, pending), <<>>)
                   ELSE Fail
            [] op = "STOP" ->
                 CASE st = "dict" -> [exc |-> "none", obj |-> d, foreign |-> FALSE]
                   [] st = "other" -> [exc |-> "none", obj |-> <<>>, foreign |-> TRUE]
                   [] OTHER -> Fail
            [] OTHER -> Fail

pickle_load(f) == Unpickle(f, 1, "start", <<>>, <<>>)

(***************************************************************************)
(* BitmapCache.load_cache: open(cache_file, "rb") and pickle.load, with    *)
(* FileNotFoundError and EOFError turned into an empty dict; any other     *)
(* exception leaves the function.  The result is [exc, cache, foreign]:    *)
(* foreign marks an unpickled object that is not the dict save_cache wrote.*)
(***************************************************************************)
load_cache(file) ==
  IF ~file.exists THEN [exc |-> "none", cache |-> <<>>, foreign |-> FALSE]
  ELSE LET r == pickle_load(file.data)
       IN CASE r.exc = "none" ->
                 [exc |-> "none", cache |-> r.obj, foreign |-> r.foreign]
            [] r.exc = "EOFError" ->
                 [exc |-> "none", cache |-> <<>>, foreign |-> FALSE]
            [] OTHER -> [exc |-> r.exc, cache |-> <<>>, foreign |-> FALSE]

(* a save_cache whose dump never reaches the file *)
save_cache_unwritten(file, m) == file
(* a save_cache that opens the file for appending *)
save_cache_append(file, m) == FileOf(file.data \o pickle_dump(m))

(* BitmapCache.save_cache run without interference: open(cache_file, "wb") *)
(* truncates the file, pickle.dump writes the whole mapping.               *)
save_cache(file, m) == FileOf(pickle_dump(m))

(***************************************************************************)
(* State.                                                                  *)
(*  cache         the dict of the one BitmapCache instance the renderers   *)
(*                share                                                    *)
(*  file          the cache file font_cache.pkl                            *)
(*  useCache      whether the renderers were constructed with the cache    *)
(*                (cache=...) or without (cache=None)                      *)
(*  sameRenderer  whether the callers use one TextRenderer or one each     *)
(*  point_size    the char_size argument each renderer was constructed with*)
(*  char_size     self.char_size of each renderer                          *)
(*  lock          self.lock of each renderer: 0, or the thread holding it  *)
(*  slot          self.slot of each renderer: the glyph last loaded        *)
(*  kerning_cache self.kerning_cache: a set of <<prev, curr, value>>       *)
(*  loads         face.load_char calls made on each renderer's face        *)
(*  budget        render_text calls each calling thread may still start    *)
(*  th            per calling thread: position in render_text and locals;  *)
(*                prev_text is the text of its previous call when that     *)
(*                returned normally and prev_layout what                   *)
(*                calculate_text_size returned in it, loads0 the value of  *)
(*                loads on entry, file0 the cache file on entry, exc the   *)
(*                exception the call ended with                            *)
(*  tasks         per calling thread: the futures submitted by its call    *)
(*  image         per calling thread: the image passed to its call         *)
(*  ap            the call of apply_bitmap_to_image under test             *)
(*  loaded        the result of the last BitmapCache construction, with    *)
(*                whether the file then held what save_cache last wrote    *)
(*                (intact), the mapping it wrote (expect) and whether that *)
(*                write replaced other content (over)                      *)
(*  written       the last save_cache: the mapping written, whether the    *)
(*                file still holds it, whether it replaced other content   *)
(*  kqueries      per renderer and pair (prev, curr): the number of calls  *)
(*                of face.get_kerning made with that pair                  *)
(*  ms            the call of calculate_text_size under test, on a font    *)
(*                of its own                                               *)
(*  font          the font file each renderer was constructed on           *)
(*  rc            two compositing tasks of one call that run at once on    *)
(*                one image                                                *)
(*  pl            the CaptioningPipeline inside render_captions            *)
(***************************************************************************)
VARIABLES cache, file, useCache, sameRenderer, point_size, char_size, lock, slot,
          kerning_cache, loads, budget, th, tasks, image, ap, loaded, written,
          kqueries, ms, font, rc, pl

vars == <<cache, file, useCache, sameRenderer, point_size, char_size, lock, slot,
          kerning_cache, loads, budget, th, tasks, image, ap, loaded, written,
          kqueries, ms, font, rc, pl>>

renderVars == <<cache, file, useCache, sameRenderer, point_size, char_size, lock, slot,
                kerning_cache, loads, budget, th, tasks, image, kqueries, font>>

(* the texts and images a caller may pass *)
RECURSIVE SeqsUpTo(_)
SeqsUpTo(n) ==
  IF n = 0 THEN {<<>>}
  ELSE LET S == SeqsUpTo(n - 1)
       IN S \cup {Append(q, c) : q \in {q2 \in S : Len(q2) = n - 1}, c \in Chars}
Texts == SeqsUpTo(MaxLen) \ {<<>>}

BG == <<10, 20, 30, 40>>
NewImage(h, w) ==
  [h |-> h, w |-> w, px |-> [p \in (0..(h - 1)) \X (0..(w - 1)) |-> BG]]
ImageShapes == {<<2, 3>>, <<4, 1>>}
NoImage == NewImage(0, 0)

Rend(t) == IF sameRenderer THEN 1 ELSE t

(* a renderer that keeps the point size as given *)
CharSizeUnscaled(s) == s
(* __init__ line 36: self.char_size = char_size * 64 *)
CharSizeOf(s) == s * 64

(* the exception a call ended with: its type, the task whose future       *)
(* raised it (0: none) and the codepoints its arguments name               *)
NoExc == [type |-> "none", task |-> 0, codepoints |-> {}]
(* numpy's ValueError, re-raised by the future of task k: its message      *)
(* gives array shapes only                                                 *)
TaskError(k) == [type |-> "ValueError", task |-> k, codepoints |-> {}]
(* "dictionary changed size during iteration", raised by pickle.dump *)
DumpError == [type |-> "RuntimeError", task |-> 0, codepoints |-> {}]

Idle ==
  [pc |-> "idle", text |-> <<>>, i |-> 0, width |-> 0, height |-> 0,
   baseline |-> 0, x_position |-> 0, y_position |-> 0,
   previous_char |-> NoChar, glyph |-> <<Rasterize(NoChar), 0, 0>>,
   dict_size |-> 0, prev_text |-> <<>>, loads0 |-> 0, exc |-> NoExc,
   prev_layout |-> <<>>, file0 |-> NoFile]

NoApply == [image |-> NoImage, bitmap |-> Rasterize(NoChar), x |-> 0, y |-> 0,
            called |-> FALSE, err |-> FALSE, before |-> NoImage, pab |-> <<>>]
NotLoaded == [exc |-> "unset", cache |-> <<>>, foreign |-> FALSE,
              intact |-> FALSE, expect |-> <<>>, over |-> FALSE]
NotWritten == [intact |-> FALSE, m |-> <<>>, over |-> FALSE]
OneFont == [r \in Renderers |-> 1]
NoRace == [image |-> NoImage, before |-> NoImage, tasks |-> <<>>, clock |-> 0]
NoPipeline == [pc |-> "none", drawn |-> {}]
NoMeasure == [font |-> <<>>, text |-> <<>>, i |-> 0, width |-> 0, height |-> 0,
              baseline |-> 0, previous_char |-> NoChar, kerning_cache |-> {},
              hist |-> <<>>, returned |-> FALSE]

(***************************************************************************)
(* TextRenderer.__init__ and BitmapCache.__init__ on a fresh cache file.   *)
(***************************************************************************)
InitRender ==
  /\ file = NoFile
  /\ cache = load_cache(file).cache
  /\ \E s \in Sizes : point_size = [r \in Renderers |-> s]
  /\ char_size = [r \in Renderers |-> CharSizeOf(point_size[r])]
  /\ lock = [r \in Renderers |-> 0]
  /\ slot = [r \in Renderers |-> NoChar]
  /\ kerning_cache = [r \in Renderers |-> {}]
  /\ kqueries = [r \in Renderers |-> [pr \in KerningKeys |-> 0]]
  /\ loads = [r \in Renderers |-> 0]
  /\ th = [t \in Threads |-> Idle]
  /\ tasks = [t \in Threads |-> <<>>]
  /\ image = [t \in Threads |-> NoImage]

(* one caller making up to MaxCalls render_text calls in a row *)
Init ==
  /\ InitRender
  /\ font = OneFont /\ rc = NoRace /\ pl = NoPipeline
  /\ useCache \in BOOLEAN
  /\ sameRenderer = TRUE
  /\ budget = [t \in Threads |-> IF t = 1 THEN MaxCalls ELSE 0]
  /\ ap = NoApply /\ loaded = NotLoaded /\ written = NotWritten
  /\ ms = NoMeasure

(* two callers, one render_text call each, that share the BitmapCache      *)
(* through one renderer or through two; a renderer without a cache has     *)
(* the one caller                                                          *)
InitConc ==
  /\ InitRender
  /\ font = OneFont /\ rc = NoRace /\ pl = NoPipeline
  /\ useCache \in BOOLEAN
  /\ sameRenderer \in (IF useCache THEN BOOLEAN ELSE {TRUE})
  /\ budget = [t \in Threads |-> IF useCache \/ t = 1 THEN 1 ELSE 0]
  /\ ap = NoApply /\ loaded = NotLoaded /\ written = NotWritten
  /\ ms = NoMeasure

(***************************************************************************)
(* get_kerning: the memoised value, and the memo after the call.           *)
(***************************************************************************)
KerningHit(kc, p, c) == \E e \in kc : e[1] = p /\ e[2] = c
(* a memo looked up by the current character alone *)
get_kerning_by_char(kc, p, c) ==
  IF \E e \in kc : e[2] = c
    THEN (CHOOSE e \in kc : e[2] = c)[3]
    ELSE FaceKerning(p, c)
get_kerning(kc, p, c) ==
  IF KerningHit(kc, p, c)
    THEN (CHOOSE e \in kc : e[1] = p /\ e[2] = c)[3]
    ELSE FaceKerning(p, c)
(* a get_kerning that queries the font but does not keep the answer *)
KerningNotStored(kc, p, c) == kc
KerningAfter(kc, p, c) ==
  IF KerningHit(kc, p, c) THEN kc ELSE kc \cup {<<p, c, FaceKerning(p, c)>>}
(* line 74: face.get_kerning is called when the key is not in the memo *)
QueriesAfter(q, kc, p, c) ==
  IF KerningHit(kc, p, c) THEN q ELSE [q EXCEPT ![<<p, c>>] = @ + 1]

(* the cache entry rasterized from the glyph slot after face.load_char(c)   *)
(* on a face of font file f                                                *)
Entry(f, c) ==
  <<get_bitmap_3d(BitmapRows(c), BitmapWidth(c), GlyphBuffer(f, c)),
    GlyphLeft(f, c), BitmapTop(c)>>
CacheKey(t, c) == <<c, char_size[Rend(t)]>>

(***************************************************************************)
(* render_text, one step at a time.                                        *)
(***************************************************************************)
(* a caller enters render_text(text, image); the callers being            *)
(* interchangeable, thread 1 is taken to call first                        *)
CallWith(t, text, shape) ==
  /\ th[t].pc \in {"idle", "returned", "raised"}
  /\ th' = [th EXCEPT ![t] =
             [Idle EXCEPT !.pc = "preload_lock", !.text = text,
                !.prev_text = IF th[t].pc = "returned"
                                THEN th[t].text ELSE <<>>,
                !.prev_layout = IF th[t].pc = "returned"
                                  THEN <<th[t].width, th[t].height,
                                         th[t].baseline>>
                                  ELSE <<>>,
                !.loads0 = loads[Rend(t)], !.file0 = file]]
  /\ image' = [image EXCEPT ![t] = NewImage(shape[1], shape[2])]
  /\ tasks' = [tasks EXCEPT ![t] = <<>>]

Call(t) ==
  /\ budget[t] > 0
  /\ t = 1 \/ budget[1] = 0
  /\ \E text \in Texts, shape \in ImageShapes : CallWith(t, text, shape)
  /\ budget' = [budget EXCEPT ![t] = @ - 1]
  /\ UNCHANGED <<cache, file, useCache, sameRenderer, point_size, char_size, lock, slot,
                 kerning_cache, loads, ap, loaded, written,
                 kqueries, ms,
                 font, rc, pl>>

(* preload_cache: with self.lock *)
PreloadAcquire(t) ==
  /\ th[t].pc = "preload_lock"
  /\ lock[Rend(t)] = 0
  /\ lock' = [lock EXCEPT ![Rend(t)] = t]
  /\ th' = [th EXCEPT ![t].pc = "preload", ![t].i = 1]
  /\ UNCHANGED <<cache, file, useCache, sameRenderer, point_size, char_size, slot,
                 kerning_cache, loads, budget, tasks, image, ap, loaded, written,
                 kqueries, ms,
                 font, rc, pl>>

(* preload_cache lines 202-212: one iteration of the loop over text, up to  *)
(* the store: the membership test and, for a key that is not in the        *)
(* mapping, the load and rasterization of the glyph                        *)
PreloadChar(t) ==
  /\ th[t].pc = "preload"
  /\ th[t].i <= Len(th[t].text)
  /\ LET c == th[t].text[th[t].i]
         r == Rend(t)
     IN IF useCache /\ ~CacheHas(cache, CacheKey(t, c))
          THEN /\ loads' = [loads EXCEPT ![r] = @ + 1]
               /\ slot' = [slot EXCEPT ![r] = c]
               /\ th' = [th EXCEPT ![t].pc = "preload_store",
                                   ![t].glyph = Entry(font[r], c)]
          ELSE /\ UNCHANGED <<loads, slot>>
               /\ th' = [th EXCEPT ![t].i = @ + 1]
  /\ UNCHANGED <<cache, file, useCache, sameRenderer, point_size, char_size, lock,
                 kerning_cache, budget, tasks, image, ap, loaded, written,
                 kqueries, ms,
                 font, rc, pl>>

(* preload_cache line 213: self.cache.cache[cache_key] = (bitmap_3d, left, *)
(* top), whatever the mapping holds under the key by now                   *)
PreloadStore(t) ==
  /\ th[t].pc = "preload_store"
  /\ cache' = CachePut(cache, CacheKey(t, th[t].text[th[t].i]), th[t].glyph)
  /\ th' = [th EXCEPT ![t].pc = "preload", ![t].i = @ + 1]
  /\ UNCHANGED <<file, useCache, sameRenderer, point_size, char_size, lock, slot,
                 kerning_cache, loads, budget, tasks, image, ap, loaded, written,
                 kqueries, ms,
                 font, rc, pl>>

(* preload_cache: the loop is over, the lock is released *)
PreloadRelease(t) ==
  /\ th[t].pc = "preload"
  /\ th[t].i > Len(th[t].text)
  /\ lock' = [lock EXCEPT ![Rend(t)] = 0]
  /\ th' = [th EXCEPT ![t].pc = "measure", ![t].i = 1]
  /\ UNCHANGED <<cache, file, useCache, sameRenderer, point_size, char_size, slot,
                 kerning_cache, loads, budget, tasks, image, ap, loaded, written,
                 kqueries, ms,
                 font, rc, pl>>

(* calculate_text_size: one iteration of the loop over text *)
MeasureChar(t) ==
  /\ th[t].pc = "measure"
  /\ th[t].i <= Len(th[t].text)
  /\ LET c == th[t].text[th[t].i]
         r == Rend(t)
         k == get_kerning(kerning_cache[r], th[t].previous_char, c)
     IN /\ loads' = [loads EXCEPT ![r] = @ + 1]
        /\ slot' = [slot EXCEPT ![r] = c]
        /\ kerning_cache' = [kerning_cache EXCEPT ![r] =
                               KerningAfter(@, th[t].previous_char, c)]
        /\ kqueries' = [kqueries EXCEPT ![r] =
                          QueriesAfter(@, kerning_cache[r], th[t].previous_char, c)]
        /\ th' = [th EXCEPT
             ![t].height = Max(@, BitmapRows(c) - BitmapTop(c)),
             ![t].baseline = Max(@, -BitmapTop(c)),
             ![t].width = @ + Shr6(Advance(c)) + Shr6(k),
             ![t].previous_char = c,
             ![t].i = @ + 1]
  /\ UNCHANGED <<cache, file, useCache, sameRenderer, point_size, char_size, lock,
                 budget, tasks, image, ap, loaded, written, ms,
                 font, rc, pl>>

(* a measurement taken as finished after any number of characters *)
MeasureOverEarly(t) == TRUE
(* line 53: the loop of calculate_text_size has run out of characters *)
MeasureOver(t) == th[t].i > Len(th[t].text)

(* render_text lines 87-95: the centred start position *)
StartWalk(t) ==
  /\ th[t].pc = "measure"
  /\ MeasureOver(t)
  /\ th' = [th EXCEPT
       ![t].pc = "walk_test",
       ![t].i = 1,
       ![t].x_position = (image[t].w - th[t].width) \div 2,
       ![t].y_position = ((image[t].h - th[t].height) \div 2) + th[t].baseline,
       ![t].previous_char = NoChar]
  /\ UNCHANGED <<cache, file, useCache, sameRenderer, point_size, char_size, lock, slot,
                 kerning_cache, loads, budget, tasks, image, ap, loaded, written,
                 kqueries, ms,
                 font, rc, pl>>

(* line 100: the unlocked test "self.cache and cache_key in self.cache.cache" *)
WalkTest(t) ==
  /\ th[t].pc = "walk_test"
  /\ LET c == th[t].text[th[t].i]
     IN th' = [th EXCEPT ![t].pc =
                 IF useCache /\ CacheHas(cache, CacheKey(t, c))
                   THEN "walk_hit_lock" ELSE "walk_miss"]
  /\ UNCHANGED <<cache, file, useCache, sameRenderer, point_size, char_size, lock, slot,
                 kerning_cache, loads, budget, tasks, image, ap, loaded, written,
                 kqueries, ms,
                 font, rc, pl>>

(* line 101: with self.lock *)
WalkHitAcquire(t) ==
  /\ th[t].pc = "walk_hit_lock"
  /\ lock[Rend(t)] = 0
  /\ lock' = [lock EXCEPT ![Rend(t)] = t]
  /\ th' = [th EXCEPT ![t].pc = "walk_hit_read"]
  /\ UNCHANGED <<cache, file, useCache, sameRenderer, point_size, char_size, slot,
                 kerning_cache, loads, budget, tasks, image, ap, loaded, written,
                 kqueries, ms,
                 font, rc, pl>>

(* line 102: the cached entry is read, the lock released *)
WalkHitRead(t) ==
  /\ th[t].pc = "walk_hit_read"
  /\ LET c == th[t].text[th[t].i]
     IN th' = [th EXCEPT ![t].pc = "walk_submit",
                         ![t].glyph = CacheGet(cache, CacheKey(t, c))]
  /\ lock' = [lock EXCEPT ![Rend(t)] = 0]
  /\ UNCHANGED <<cache, file, useCache, sameRenderer, point_size, char_size, slot,
                 kerning_cache, loads, budget, tasks, image, ap, loaded, written,
                 kqueries, ms,
                 font, rc, pl>>

(* lines 104-114: the glyph is loaded and rasterized; with a cache the     *)
(* entry is stored under the lock                                          *)
WalkMiss(t) ==
  /\ th[t].pc = "walk_miss"
  /\ LET c == th[t].text[th[t].i]
         r == Rend(t)
     IN /\ loads' = [loads EXCEPT ![r] = @ + 1]
        /\ slot' = [slot EXCEPT ![r] = c]
        /\ th' = [th EXCEPT ![t].pc = "walk_submit",
                            ![t].glyph = Entry(font[r], c)]
        /\ IF useCache
             THEN /\ lock[r] = 0
                  /\ cache' = CachePut(cache, CacheKey(t, c), Entry(font[r], c))
             ELSE cache' = cache
  /\ UNCHANGED <<file, useCache, sameRenderer, point_size, char_size, lock,
                 kerning_cache, budget, tasks, image, ap, loaded, written,
                 kqueries, ms,
                 font, rc, pl>>

(* lines 116-131: the pen moves by the kerning, the compositing task is    *)
(* submitted, the pen moves by the advance of the glyph in the slot        *)
WalkSubmit(t) ==
  /\ th[t].pc = "walk_submit"
  /\ LET c == th[t].text[th[t].i]
         r == Rend(t)
         left == th[t].glyph[2]
         top == th[t].glyph[3]
         k == get_kerning(kerning_cache[r], th[t].previous_char, c)
         x == th[t].x_position + Shr6(k)
     IN /\ kerning_cache' = [kerning_cache EXCEPT ![r] =
                               KerningAfter(@, th[t].previous_char, c)]
        /\ kqueries' = [kqueries EXCEPT ![r] =
                          QueriesAfter(@, kerning_cache[r], th[t].previous_char, c)]
        /\ tasks' = [tasks EXCEPT ![t] = Append(@,
                       [ch |-> c, bitmap |-> th[t].glyph[1],
                        x |-> x + left, y |-> th[t].y_position - top,
                        st |-> "pending"])]
        /\ th' = [th EXCEPT
             ![t].x_position = x + Shr6(Advance(slot[r])),
             ![t].previous_char = c,
             ![t].i = @ + 1,
             ![t].pc = IF th[t].i + 1 > Len(th[t].text)
                         THEN "join" ELSE "walk_test"]
  /\ UNCHANGED <<cache, file, useCache, sameRenderer, point_size, char_size, lock, slot,
                 loads, budget, image, ap, loaded, written, ms,
                 font, rc, pl>>

(***************************************************************************)
(* A pool worker runs apply_bitmap_to_image for one submitted task; an     *)
(* error of numpy fails the task and leaves the image as it was.  The      *)
(* clipped rectangles of the tasks of a call share no pixel for the texts  *)
(* and images of Call, so the task is taken in one step; SpecRace has the  *)
(* statements of two tasks that overlap take turns.                        *)
(***************************************************************************)
TaskRun(t, k) ==
  /\ tasks[t][k].st = "pending"
  /\ LET tk == tasks[t][k]
         res == apply_bitmap_to_image(image[t], tk.bitmap, tk.x, tk.y)
     IN /\ tasks' = [tasks EXCEPT ![t][k].st =
                       IF res.err THEN "failed" ELSE "done"]
        /\ image' = [image EXCEPT ![t] = res.image]
  /\ UNCHANGED <<cache, file, useCache, sameRenderer, point_size, char_size, lock, slot,
                 kerning_cache, loads, budget, th, ap, loaded, written,
                 kqueries, ms,
                 font, rc, pl>>

(* a future whose result() does not block *)
FinishedNoWait(tk) == TRUE
(* task.result() returns or raises once the task has run *)
Finished(tk) == tk.st \in {"done", "failed"}
(* an executor shut down without waiting for its workers *)
NoneAwaited(t) == TRUE
(* ThreadPoolExecutor.__exit__: shutdown(wait=True) *)
AllFinished(t) == \A k \in 1..Len(tasks[t]) : Finished(tasks[t][k])

(* a join loop that walks the task list from its end *)
AwaitedFromLast(t) == Len(tasks[t]) + 1 - (th[t].i - Len(th[t].text))
(* line 133: the task the loop "for task in tasks" is at *)
Awaited(t) == th[t].i - Len(th[t].text)

(***************************************************************************)
(* lines 133-134: task.result() for each task in order; th[t].i is the     *)
(* index of the task waited for.  A failed task re-raises in the caller.   *)
(***************************************************************************)
JoinTask(t) ==
  /\ th[t].pc = "join"
  /\ th[t].i - Len(th[t].text) <= Len(tasks[t])
  /\ LET tk == tasks[t][Awaited(t)]
     IN /\ Finished(tk)
        /\ th' = [th EXCEPT ![t].pc = IF tk.st = "failed" THEN "unwind" ELSE "join",
                            ![t].exc = IF tk.st = "failed"
                                         THEN TaskError(Awaited(t)) ELSE @,
                            ![t].i = @ + 1]
  /\ UNCHANGED <<cache, file, useCache, sameRenderer, point_size, char_size, lock, slot,
                 kerning_cache, loads, budget, tasks, image, ap, loaded, written,
                 kqueries, ms,
                 font, rc, pl>>

(* the with block ends normally: ThreadPoolExecutor.__exit__ waits for the *)
(* workers (shutdown(wait=True)); lines 136-138 follow                     *)
JoinExit(t) ==
  /\ th[t].pc = "join"
  /\ th[t].i - Len(th[t].text) > Len(tasks[t])
  /\ AllFinished(t)
  /\ th' = [th EXCEPT ![t].pc = IF useCache THEN "save_open" ELSE "returned"]
  /\ UNCHANGED <<cache, file, useCache, sameRenderer, point_size, char_size, lock, slot,
                 kerning_cache, loads, budget, tasks, image, ap, loaded, written,
                 kqueries, ms,
                 font, rc, pl>>

(* a render_text that saves the cache on its way out of an exception *)
FileSavedOnRaise(f, m) == save_cache(f, m)
(* lines 134-137: the exception leaves render_text from task.result(), so   *)
(* save_cache is not called and the file stays as it is                    *)
FileAfterRaise(f, m) == f

(* the with block is left by the exception of a task: __exit__ still waits *)
(* for every submitted task, then the exception reaches the caller         *)
Unwind(t) ==
  /\ th[t].pc = "unwind"
  /\ AllFinished(t)
  /\ th' = [th EXCEPT ![t].pc = "raised"]
  /\ file' = FileAfterRaise(file, cache)
  /\ UNCHANGED <<cache, useCache, sameRenderer, point_size, char_size, lock, slot,
                 kerning_cache, loads, budget, tasks, image, ap, loaded, written,
                 kqueries, ms,
                 font, rc, pl>>

(***************************************************************************)
(* save_cache inside render_text (line 137), no lock held: open(.., "wb")  *)
(* empties the file; pickle.dump walks the live dict item by item          *)
(* (th[t].i counts the items pickled) and raises RuntimeError when the     *)
(* dict's size changed under it, leaving what was flushed of the stream.   *)
(***************************************************************************)
SaveOpen(t) ==
  /\ th[t].pc = "save_open"
  /\ file' = FileOf(<<>>)
  /\ th' = [th EXCEPT ![t].pc = "save_dump", ![t].i = 0,
                      ![t].dict_size = Len(cache)]
  /\ UNCHANGED <<cache, useCache, sameRenderer, point_size, char_size, lock, slot,
                 kerning_cache, loads, budget, tasks, image, ap, loaded, written,
                 kqueries, ms,
                 font, rc, pl>>

SaveItem(t) ==
  /\ th[t].pc = "save_dump"
  /\ th[t].i < Len(cache)
  /\ th' = [th EXCEPT ![t].i = @ + 1]
  /\ UNCHANGED <<cache, file, useCache, sameRenderer, point_size, char_size, lock, slot,
                 kerning_cache, loads, budget, tasks, image, ap, loaded, written,
                 kqueries, ms,
                 font, rc, pl>>

PartialStream(m) == <<Tok("PROTO"), Frame(Len(m) + 2), Tok("EMPTY_DICT"), Tok("MARK")>>
                      \o DumpItems(m)

SaveClose(t) ==
  /\ th[t].pc = "save_dump"
  /\ th[t].i >= Len(cache)
  /\ IF Len(cache) = th[t].dict_size
       THEN /\ file' = save_cache(file, cache)
            /\ th' = [th EXCEPT ![t].pc = "returned"]
       ELSE /\ file' \in {FileOf(<<>>), FileOf(PartialStream(cache))}
            /\ th' = [th EXCEPT ![t].pc = "raised", ![t].exc = DumpError]
  /\ UNCHANGED <<cache, useCache, sameRenderer, point_size, char_size, lock, slot,
                 kerning_cache, loads, budget, tasks, image, ap, loaded, written,
                 kqueries, ms,
                 font, rc, pl>>

Step(t) ==
  \/ Call(t)
  \/ PreloadAcquire(t) \/ PreloadChar(t) \/ PreloadStore(t) \/ PreloadRelease(t)
  \/ MeasureChar(t) \/ StartWalk(t)
  \/ WalkTest(t) \/ WalkHitAcquire(t) \/ WalkHitRead(t) \/ WalkMiss(t)
  \/ WalkSubmit(t)
  \/ \E k \in 1..Len(tasks[t]) : TaskRun(t, k)
  \/ JoinTask(t) \/ JoinExit(t) \/ Unwind(t)
  \/ SaveOpen(t) \/ SaveItem(t) \/ SaveClose(t)

Next == \E t \in Threads : Step(t)

Spec == Init /\ [][Next]_vars

SpecConc == InitConc /\ [][Next]_vars


(***************************************************************************)
(* Renderers constructed on different font files at one point size that    *)
(* share a BitmapCache: two callers, one render_text call each, each on a  *)
(* renderer of its own; a renderer without a cache has the one caller.     *)
(***************************************************************************)
InitFonts ==
  /\ InitRender
  /\ useCache \in BOOLEAN
  /\ sameRenderer = ~useCache
  /\ font = [r \in Renderers |-> r]
  /\ budget = [t \in Threads |-> IF useCache \/ t = 1 THEN 1 ELSE 0]
  /\ ap = NoApply /\ loaded = NotLoaded /\ written = NotWritten
  /\ ms = NoMeasure /\ rc = NoRace /\ pl = NoPipeline

SpecFonts == InitFonts /\ [][Next]_vars

(***************************************************************************)
(* apply_bitmap_to_image on its own: any image shape, glyph bitmap and     *)
(* position within the bounds, one call.                                   *)
(***************************************************************************)
ApplyShapes == (1..MaxDim) \X (1..MaxDim)
Alphas == {0, 128, 255}
(* an image whose pixels differ from one another *)
TestImage(h, w) ==
  [h |-> h, w |-> w,
   px |-> [p \in (0..(h - 1)) \X (0..(w - 1)) |->
             <<10 + p[1], 20 + p[2], 30, 40 + p[1] + p[2]>>]]
UniformBitmap(h, w, a) ==
  get_bitmap_3d(h, w, [p \in (0..(h - 1)) \X (0..(w - 1)) |-> a])
GlyphBitmaps ==
  {Rasterize(c) : c \in Chars}
    \cup {UniformBitmap(h, w, a) : h \in 1..MaxDim, w \in 1..MaxDim, a \in Alphas}
Coords == (-MaxCoord)..MaxCoord

InitApply ==
  /\ InitRender
  /\ font = OneFont /\ rc = NoRace /\ pl = NoPipeline
  /\ useCache = TRUE /\ sameRenderer = TRUE
  /\ budget = [t \in Threads |-> 0]
  /\ loaded = NotLoaded /\ written = NotWritten
  /\ ms = NoMeasure
  /\ \E shape \in ApplyShapes, b \in GlyphBitmaps, x \in Coords, y \in Coords :
       ap = [image |-> TestImage(shape[1], shape[2]), bitmap |-> b,
             x |-> x, y |-> y, called |-> FALSE, err |-> FALSE,
             before |-> TestImage(shape[1], shape[2]), pab |-> <<>>]

Apply ==
  /\ ~ap.called
  /\ LET res == apply_bitmap_to_image(ap.image, ap.bitmap, ap.x, ap.y)
     IN ap' = [ap EXCEPT !.called = TRUE, !.err = res.err, !.image = res.image]
  /\ UNCHANGED <<renderVars, loaded, written, ms, rc, pl>>

SpecApply == InitApply /\ [][Apply]_vars

(***************************************************************************)
(* The blend of one glyph pixel onto one image pixel, for background and   *)
(* foreground values over the range of a byte: apply_bitmap_to_image of a  *)
(* 1 x 1 bitmap at (0, 0) of a 1 x 1 image, and pixel_alpha_blending of    *)
(* the same two pixels (ap.pab is its result).                             *)
(***************************************************************************)
BgLevels == {0, 127, 255}
BgAlphas == {40, 255}
FgLevels == {0, 100, 255}
OnePixel(px) == [<<r, c>> \in {<<0, 0>>} |-> px]

InitBlend ==
  /\ InitRender
  /\ font = OneFont /\ rc = NoRace /\ pl = NoPipeline
  /\ useCache = TRUE /\ sameRenderer = TRUE
  /\ budget = [t \in Threads |-> 0]
  /\ loaded = NotLoaded /\ written = NotWritten
  /\ ms = NoMeasure
  /\ \E b1 \in BgLevels, b2 \in BgLevels, b3 \in BgLevels, b4 \in BgAlphas,
        f1 \in FgLevels, f2 \in FgLevels, f3 \in FgLevels, a \in Alphas :
       LET img == [h |-> 1, w |-> 1, px |-> OnePixel(<<b1, b2, b3, b4>>)]
       IN ap = [image |-> img,
                bitmap |-> [rows |-> 1, width |-> 1,
                            px |-> OnePixel(<<f1, f2, f3, a>>)],
                x |-> 0, y |-> 0, called |-> FALSE, err |-> FALSE,
                before |-> img, pab |-> <<>>]

PixelBlend ==
  /\ ap.pab = <<>>
  /\ ap' = [ap EXCEPT !.pab = pixel_alpha_blending(ap.before.px[<<0, 0>>],
                                                   ap.bitmap.px[<<0, 0>>])]
  /\ UNCHANGED <<renderVars, loaded, written, ms, rc, pl>>

NextBlend == Apply \/ PixelBlend

SpecBlend == InitBlend /\ [][NextBlend]_vars

(***************************************************************************)
(* Two compositing tasks of one render_text call running at once on the    *)
(* image of the call.  The pool runs apply_bitmap_to_image in worker       *)
(* threads with no lock, so another task can run between the statements    *)
(* of one: lines 171-177 read the image slice and compute the blend, line  *)
(* 178 stores the array built from it.  (In Spec the clipped rectangles of *)
(* the tasks of a call never share a pixel, which is why a task is one     *)
(* step there.)  The 4th channel is read at line 179, after the colours;   *)
(* no task changes it, so it is read with them.  rc.clock counts the       *)
(* steps; a task records when it read (r) and when it stored (w).          *)
(***************************************************************************)
(* line 171: the pixels of image[y0:y1, x0:x1] *)
SlicePixels(img, bitmap, x, y) ==
  LET g == ClipGeom(img.h, img.w, bitmap.rows, bitmap.width, x, y)
  IN {p \in DOMAIN img.px :
        /\ p[1] >= g.ir0 /\ p[1] < g.ir0 + g.hi
        /\ p[2] >= g.ic0 /\ p[2] < g.ic0 + g.wi}

(* lines 171-180, right-hand side: the array a task is about to store,     *)
(* computed from the image as it is now                                    *)
blended_slice(img, bitmap, x, y) ==
  LET res == apply_bitmap_to_image(img, bitmap, x, y)
  IN [err |-> res.err,
      px |-> [p \in SlicePixels(img, bitmap, x, y) |-> res.image.px[p]]]

(* line 178: image[y0:y1, x0:x1] = value *)
store_slice(img, value) ==
  [img EXCEPT !.px = [p \in DOMAIN img.px |->
                        IF p \in DOMAIN value THEN value[p] ELSE img.px[p]]]

(* a task that blends again, from the image as it is when it stores *)
StoredValueFresh(img, tk) == blended_slice(img, tk.bitmap, tk.x, tk.y).px
(* line 178 stores the array computed from the slice as it was read *)
StoredValue(img, tk) == tk.value

RaceBitmaps ==
  {Rasterize(c) : c \in Chars}
    \cup {UniformBitmap(1, w, a) : w \in 1..MaxDim, a \in Alphas}
RaceXs == (-1)..1
RaceTask(b, x) ==
  [bitmap |-> b, x |-> x, y |-> 0, st |-> "pending", value |-> <<>>,
   r |-> 0, w |-> 0]

InitRace ==
  /\ InitRender
  /\ useCache = FALSE /\ sameRenderer = TRUE
  /\ font = OneFont /\ pl = NoPipeline
  /\ budget = [t \in Threads |-> 0]
  /\ ap = NoApply /\ loaded = NotLoaded /\ written = NotWritten
  /\ ms = NoMeasure
  /\ \E w \in 1..MaxDim, b1 \in RaceBitmaps, b2 \in RaceBitmaps,
        x1 \in RaceXs, x2 \in RaceXs :
       rc = [image |-> TestImage(1, w), before |-> TestImage(1, w),
             tasks |-> <<RaceTask(b1, x1), RaceTask(b2, x2)>>, clock |-> 0]

(* lines 171-177 of task k *)
TaskBlend(k) ==
  /\ rc.tasks[k].st = "pending"
  /\ LET tk == rc.tasks[k]
         v == blended_slice(rc.image, tk.bitmap, tk.x, tk.y)
     IN rc' = [rc EXCEPT !.tasks[k].st = IF v.err THEN "failed" ELSE "read",
                         !.tasks[k].value = v.px,
                         !.tasks[k].r = rc.clock + 1,
                         !.clock = @ + 1]
  /\ UNCHANGED <<renderVars, ap, loaded, written, ms, pl>>

(* lines 178-180 of task k *)
TaskStore(k) ==
  /\ rc.tasks[k].st = "read"
  /\ rc' = [rc EXCEPT !.image = store_slice(@, StoredValue(@, rc.tasks[k])),
                      !.tasks[k].st = "done",
                      !.tasks[k].w = rc.clock + 1,
                      !.clock = @ + 1]
  /\ UNCHANGED <<renderVars, ap, loaded, written, ms, pl>>

NextRace == \E k \in 1..2 : TaskBlend(k) \/ TaskStore(k)

SpecRace == InitRace /\ [][NextRace]_vars

(***************************************************************************)
(* BitmapCache on its own: a mapping that gains entries, save_cache,       *)
(* the construction of a new BitmapCache on the file (load_cache), and a   *)
(* file that is cut short or overwritten with other bytes between runs.    *)
(***************************************************************************)
InitCache ==
  /\ InitRender
  /\ font = OneFont /\ rc = NoRace /\ pl = NoPipeline
  /\ useCache = TRUE /\ sameRenderer = TRUE
  /\ budget = [t \in Threads |-> 0]
  /\ ap = NoApply /\ loaded = NotLoaded /\ written = NotWritten
  /\ ms = NoMeasure

(* an entry is stored, as preload_cache of renderer 1 stores it *)
CacheStore ==
  /\ \E c \in Chars :
       /\ ~CacheHas(cache, <<c, char_size[1]>>)
       /\ cache' = CachePut(cache, <<c, char_size[1]>>, Entry(font[1], c))
  /\ UNCHANGED <<file, useCache, sameRenderer, point_size, char_size, lock, slot,
                 kerning_cache, loads, budget, th, tasks, image, ap, loaded,
                 written,
                 kqueries, ms,
                 font, rc, pl>>

Save ==
  /\ file' = save_cache(file, cache)
  /\ written' = [intact |-> TRUE, m |-> cache,
                 over |-> file.exists /\ file.data # pickle_dump(cache)]
  /\ UNCHANGED <<cache, useCache, sameRenderer, point_size, char_size, lock, slot,
                 kerning_cache, loads, budget, th, tasks, image, ap, loaded,
                 kqueries, ms,
                 font, rc, pl>>

(* BitmapCache(cache_file): self.cache = self.load_cache(); an exception   *)
(* leaves the constructor and no new mapping replaces the old one          *)
Load ==
  /\ LET r == load_cache(file)
     IN /\ loaded' = [exc |-> r.exc, cache |-> r.cache, foreign |-> r.foreign,
                      intact |-> written.intact, expect |-> written.m,
                      over |-> written.over]
        /\ cache' = IF r.exc = "none" THEN r.cache ELSE cache
  /\ UNCHANGED <<file, useCache, sameRenderer, point_size, char_size, lock, slot,
                 kerning_cache, loads, budget, th, tasks, image, ap, written,
                 kqueries, ms,
                 font, rc, pl>>

(* the file loses its tail (a write cut short) *)
Truncate ==
  /\ file.exists
  /\ \E n \in 0..(Len(file.data) - 1) :
       file' = FileOf(SubSeq(file.data, 1, n))
  /\ written' = [written EXCEPT !.intact = FALSE]
  /\ UNCHANGED <<cache, useCache, sameRenderer, point_size, char_size, lock, slot,
                 kerning_cache, loads, budget, th, tasks, image, ap, loaded,
                 kqueries, ms,
                 font, rc, pl>>

(* one opcode of the file is overwritten with bytes that are no opcode    *)
(* (at most one per file content)                                          *)
Corrupt ==
  /\ file.exists
  /\ \A j \in 1..Len(file.data) : file.data[j][1] # "JUNK"
  /\ \E n \in 1..Len(file.data) :
       /\ file' = FileOf([file.data EXCEPT ![n] = Tok("JUNK")])
  /\ written' = [written EXCEPT !.intact = FALSE]
  /\ UNCHANGED <<cache, useCache, sameRenderer, point_size, char_size, lock, slot,
                 kerning_cache, loads, budget, th, tasks, image, ap, loaded,
                 kqueries, ms,
                 font, rc, pl>>

NextCache == CacheStore \/ Save \/ Load \/ Truncate \/ Corrupt

SpecCache == InitCache /\ [][NextCache]_vars

(***************************************************************************)
(* calculate_text_size on its own, on a renderer just constructed, for     *)
(* fonts whose glyph metrics vary.  A font gives each character a glyph    *)
(* [advance, top, rows] (slot.advance.x in 1/64 pixel, slot.bitmap_top and *)
(* slot.bitmap.rows in pixels) and the pair ("A", "B") a kerning x in 1/64 *)
(* pixel.  The first two glyphs with kerning 128 are the font of the       *)
(* documented scenario: advances of 30 and 28 pixels, kerning of 2 pixels, *)
(* bitmap_top = rows = 40 and 35.  The others are a glyph descending under *)
(* the baseline, a glyph lying wholly under it and a mark floating above   *)
(* it (bitmap_top greater than rows).                                      *)
(***************************************************************************)
Glyphs ==
  {[advance |-> 1920, top |-> 40, rows |-> 40],
   [advance |-> 1792, top |-> 35, rows |-> 35],
   [advance |-> 100, top |-> 1, rows |-> 3],
   [advance |-> 64, top |-> -2, rows |-> 1],
   [advance |-> 64, top |-> 3, rows |-> 1]}
KerningXs == {128, 0, -70}
Fonts == [glyph : [Chars -> Glyphs], kernAB : KerningXs]
FontKerning(f, p, c) == IF p = "A" /\ c = "B" THEN f.kernAB ELSE 0

(* a loop body that forgets the kerning of the pair *)
layout_step_unkerned(l, g, k) ==
  [width |-> l.width + Shr6(g.advance),
   height |-> Max(l.height, g.rows - g.top),
   baseline |-> Max(l.baseline, -g.top)]
(* a loop body that takes the last glyph's extent instead of the maximum *)
layout_step_last(l, g, k) ==
  [width |-> l.width + Shr6(g.advance) + Shr6(k),
   height |-> g.rows - g.top,
   baseline |-> -g.top]
(* lines 54-59: one iteration on the glyph g in the slot, k = kerning.x *)
layout_step(l, g, k) ==
  [width |-> l.width + Shr6(g.advance) + Shr6(k),
   height |-> Max(l.height, g.rows - g.top),
   baseline |-> Max(l.baseline, -g.top)]

InitMeasure ==
  /\ InitRender
  /\ font = OneFont /\ rc = NoRace /\ pl = NoPipeline
  /\ useCache = FALSE /\ sameRenderer = TRUE
  /\ budget = [t \in Threads |-> 0]
  /\ ap = NoApply /\ loaded = NotLoaded /\ written = NotWritten
  /\ \E f \in Fonts, text \in Texts :
       ms = [NoMeasure EXCEPT !.font = f, !.text = text, !.i = 1]

(* lines 53-60: one iteration of the loop over text *)
MeasureLoop ==
  /\ ~ms.returned
  /\ ms.i <= Len(ms.text)
  /\ LET c == ms.text[ms.i]
         p == ms.previous_char
         hit == KerningHit(ms.kerning_cache, p, c)
         k == IF hit
                THEN (CHOOSE e \in ms.kerning_cache : e[1] = p /\ e[2] = c)[3]
                ELSE FontKerning(ms.font, p, c)
         l == layout_step([width |-> ms.width, height |-> ms.height,
                           baseline |-> ms.baseline], ms.font.glyph[c], k)
     IN ms' = [ms EXCEPT
                 !.width = l.width, !.height = l.height, !.baseline = l.baseline,
                 !.kerning_cache = IF hit THEN @ ELSE @ \cup {<<p, c, k>>},
                 !.previous_char = c,
                 !.hist = Append(@, <<l.height, l.baseline>>),
                 !.i = @ + 1]
  /\ UNCHANGED <<renderVars, ap, loaded, written, rc, pl>>

(* line 62: return width, height, baseline *)
MeasureReturn ==
  /\ ~ms.returned
  /\ ms.i > Len(ms.text)
  /\ ms' = [ms EXCEPT !.returned = TRUE]
  /\ UNCHANGED <<renderVars, ap, loaded, written, rc, pl>>

NextMeasure == MeasureLoop \/ MeasureReturn

SpecMeasure == InitMeasure /\ [][NextMeasure]_vars

(***************************************************************************)
(* CaptioningPipeline.render_captions(word_level_text, framerate, frames)  *)
(* on the renderer the pipeline constructed.  A word is <<start, end,      *)
(* text>> with the times in half seconds, the words follow one another in  *)
(* time, the frame rate is a whole number of frames per second.  The       *)
(* frames of the video are the files 1.jpeg .. frames.jpeg that            *)
(* decode_video wrote.  pl.drawn holds <<frame_num, i>> for every frame    *)
(* written back with the caption of the group at index i.                  *)
(***************************************************************************)
(* __init__ line 25: word_count: int = 1 *)
word_count == 1
(* __init__ line 39: TextRenderer(font_path, char_size): the cache         *)
(* argument is left out, so the renderer's self.cache is None              *)
RendererHasCache == FALSE

(* int(seconds * framerate), the time in half seconds *)
FrameOf(h, framerate) == (h * framerate) \div 2

Words == {<<"A">>, <<"B">>}
Times == 0..MaxTime
RECURSIVE WordLists(_)
WordLists(n) ==
  IF n = 0 THEN {<<>>}
  ELSE LET S == WordLists(n - 1)
       IN S \cup {Append(ws, <<b, e, w>>) :
                    ws \in {q \in S : Len(q) = n - 1},
                    b \in Times, e \in Times, w \in Words}
Ordered(ws) ==
  \A k \in 1..Len(ws) :
    /\ ws[k][1] <= ws[k][2]
    /\ k > 1 => ws[k - 1][2] <= ws[k][1]
WordTimings == {ws \in WordLists(MaxWords) : ws # <<>> /\ Ordered(ws)}
FrameRates == {1, 2}
(* the size of the frames of the video *)
FrameShape == <<2, 3>>

InitPipeline ==
  /\ InitRender
  /\ useCache = RendererHasCache /\ sameRenderer = TRUE
  /\ font = OneFont /\ rc = NoRace
  /\ budget = [t \in Threads |-> 0]
  /\ ap = NoApply /\ loaded = NotLoaded /\ written = NotWritten
  /\ ms = NoMeasure
  /\ \E ws \in WordTimings, fr \in FrameRates, n \in 1..MaxFrames :
       pl = [pc |-> "group", words |-> ws, framerate |-> fr, frames |-> n,
             i |-> 1, begin_frame |-> 0, end_frame |-> 0, frame_num |-> 0,
             drawn |-> {}]

(* lines 84-95 and 106-107: the next group, its frame range, and the test  *)
(* frames > end_frame whose else branch leaves the loop over the groups    *)
GroupBegin ==
  /\ pl.pc = "group"
  /\ pl.i <= Len(pl.words)
  /\ LET first == pl.words[pl.i]
         last == pl.words[Min(pl.i + word_count - 1, Len(pl.words))]
         begin_frame == Max(1, FrameOf(first[1], pl.framerate))
         end_frame == FrameOf(last[2], pl.framerate)
     IN pl' = [pl EXCEPT !.begin_frame = begin_frame,
                         !.end_frame = end_frame,
                         !.frame_num = begin_frame,
                         !.pc = IF pl.frames > end_frame THEN "frame" ELSE "done"]
  /\ UNCHANGED <<renderVars, ap, loaded, written, ms, rc>>

(* line 84: the loop over the groups has run out of words *)
GroupsOver ==
  /\ pl.pc = "group"
  /\ pl.i > Len(pl.words)
  /\ pl' = [pl EXCEPT !.pc = "done"]
  /\ UNCHANGED <<renderVars, ap, loaded, written, ms, rc>>

(* lines 96-102: the frame is read and render_text is called with the      *)
(* caption of the group (one word, word_count being 1)                     *)
FrameRender ==
  /\ pl.pc = "frame"
  /\ pl.frame_num < pl.end_frame
  /\ CallWith(1, pl.words[pl.i][3], FrameShape)
  /\ pl' = [pl EXCEPT !.pc = "rendering"]
  /\ UNCHANGED <<cache, file, useCache, sameRenderer, point_size, char_size, lock,
                 slot, kerning_cache, loads, budget, kqueries, font,
                 ap, loaded, written, ms, rc>>

(* lines 103-105: render_text has returned, the frame is written back *)
FrameWrite ==
  /\ pl.pc = "rendering"
  /\ th[1].pc = "returned"
  /\ pl' = [pl EXCEPT !.drawn = @ \cup {<<pl.frame_num, pl.i>>},
                      !.frame_num = @ + 1,
                      !.pc = "frame"]
  /\ UNCHANGED <<renderVars, ap, loaded, written, ms, rc>>

(* render_text has raised: the exception leaves render_captions *)
FrameRaise ==
  /\ pl.pc = "rendering"
  /\ th[1].pc = "raised"
  /\ pl' = [pl EXCEPT !.pc = "raised"]
  /\ UNCHANGED <<renderVars, ap, loaded, written, ms, rc>>

(* line 96: the range of frames of the group is exhausted *)
GroupEnd ==
  /\ pl.pc = "frame"
  /\ pl.frame_num >= pl.end_frame
  /\ pl' = [pl EXCEPT !.i = @ + word_count, !.pc = "group"]
  /\ UNCHANGED <<renderVars, ap, loaded, written, ms, rc>>

(* the steps of render_text on a renderer whose cache is None: the steps   *)
(* that read, insert into or save a cache cannot be taken                  *)
RenderStep ==
  \/ PreloadAcquire(1) \/ PreloadChar(1) \/ PreloadRelease(1)
  \/ MeasureChar(1) \/ StartWalk(1)
  \/ WalkTest(1) \/ WalkMiss(1) \/ WalkSubmit(1)
  \/ \E k \in 1..Len(tasks[1]) : TaskRun(1, k)
  \/ JoinTask(1) \/ JoinExit(1) \/ Unwind(1)

NextPipeline ==
  \/ GroupBegin \/ GroupsOver \/ FrameRender \/ FrameWrite \/ FrameRaise
  \/ GroupEnd \/ RenderStep

SpecPipeline == InitPipeline /\ [][NextPipeline]_vars

(***************************************************************************)
(* calculate_text_size as a function of the text: the layout after the     *)
(* first n characters.                                                     *)
(***************************************************************************)
RECURSIVE calculate_text_size(_, _)
calculate_text_size(text, n) ==
  IF n = 0 THEN [width |-> 0, height |-> 0, baseline |-> 0]
  ELSE LET l == calculate_text_size(text, n - 1)
           c == text[n]
           p == IF n = 1 THEN NoChar ELSE text[n - 1]
       IN [width |-> l.width + Shr6(Advance(c)) + Shr6(FaceKerning(p, c)),
           height |-> Max(l.height, BitmapRows(c) - BitmapTop(c)),
           baseline |-> Max(l.baseline, -BitmapTop(c))]

Range(q) == {q[j] : j \in 1..Len(q)}

(***************************************************************************)
(* Properties.                                                             *)
(***************************************************************************)

(* C1: when render_text has returned normally, every compositing task      *)
(* submitted by that call (one per character of the text) has completed;   *)
(* none is pending, so no write to the image can follow the return.        *)
C1_TasksDoneAtReturn ==
  \A t \in Threads :
    th[t].pc = "returned" =>
      /\ Len(tasks[t]) = Len(th[t].text)
      /\ \A k \in 1..Len(tasks[t]) : tasks[t][k].st = "done"

(* C1 witness: a call that submitted two tasks has returned, with a cache  *)
C1_Witness ==
  \E t \in Threads :
    th[t].pc = "returned" /\ Len(tasks[t]) >= 2 /\ useCache

(* C2: a glyph rectangle that does not intersect the image rectangle makes *)
(* apply_bitmap_to_image return without an error and leaves every pixel    *)
(* unchanged.                                                              *)
Outside(a) ==
  \/ a.x >= a.before.w \/ a.x + a.bitmap.width <= 0
  \/ a.y >= a.before.h \/ a.y + a.bitmap.rows <= 0

C2_OutsideIsNoop ==
  (ap.called /\ Outside(ap)) => (~ap.err /\ ap.image = ap.before)

(* C3: a second render_text of the same text on the same renderer and      *)
(* cache, after a first one that started on an empty cache, makes no       *)
(* face.load_char call in any of its steps.                                *)
C3_NoLoadOnRerender ==
  \A t \in Threads :
    (useCache /\ th[t].prev_text # <<>> /\ th[t].prev_text = th[t].text)
      => loads[Rend(t)] = th[t].loads0

(* C4 as claimed: after the first render_text on an empty cache the key    *)
(* set is { <<c, s>> : c in text } with s the point size the caller gave.  *)
FirstCallReturned(t) ==
  /\ useCache
  /\ th[t].pc = "returned"
  /\ budget[t] = MaxCalls - 1

C4_KeysByPointSize ==
  \A t \in Threads :
    FirstCallReturned(t) =>
      CacheKeys(cache) = {<<c, point_size[Rend(t)]>> : c \in Range(th[t].text)}

(* C4 amended: after the first render_text on an empty cache the key set   *)
(* is { <<c, 64 * s>> : c in text }: one entry per distinct character,     *)
(* keyed by the character and the point size in 1/64 units.                *)
C4_KeysByCharSize ==
  \A t \in Threads :
    FirstCallReturned(t) =>
      /\ CacheKeys(cache) =
           {<<c, 64 * point_size[Rend(t)]>> : c \in Range(th[t].text)}
      /\ Len(cache) = Cardinality(Range(th[t].text))

(* C4 witness: the first call, on a text of two distinct characters *)
C4_Witness ==
  \E t \in Threads :
    FirstCallReturned(t) /\ Cardinality(Range(th[t].text)) = 2

(* C5: constructing a BitmapCache never raises, whatever the cache file    *)
(* holds, and yields an empty mapping when the file is not what save_cache *)
(* wrote.                                                                  *)
C5_LoadNeverRaises ==
  loaded.exc # "unset" =>
    /\ loaded.exc = "none"
    /\ ~loaded.intact => (loaded.cache = <<>> /\ ~loaded.foreign)

(* C6: load_cache on a file that save_cache wrote for a non-empty mapping  *)
(* m, with no write in between, returns m: the same keys in the same       *)
(* order, each with the same bitmap, left and top; whatever the file held  *)
(* before the save.                                                        *)
C6_RoundTrip ==
  (loaded.exc # "unset" /\ loaded.intact /\ loaded.expect # <<>>) =>
    /\ loaded.exc = "none"
    /\ ~loaded.foreign
    /\ loaded.cache = loaded.expect

(* C6 witness: a two-entry mapping saved over other content and loaded *)
C6_Witness ==
  /\ loaded.exc = "none" /\ loaded.intact /\ loaded.over
  /\ Len(loaded.expect) = 2
  /\ loaded.cache = loaded.expect

(* C7: a thread that is at a step reading or writing the cache mapping     *)
(* (the loop of preload_cache, the membership test of render_text, the     *)
(* read of a cached entry) holds the lock of its renderer.                 *)
C7_AccessUnderLock ==
  \A t \in Threads :
    (useCache /\ th[t].pc \in {"preload", "preload_store", "walk_test",
                                "walk_hit_read"})
      => lock[Rend(t)] = t

(* C8: at most one thread at a time is inside a section that reads,        *)
(* inserts into or serializes the shared cache mapping.                    *)
InMapping(t) ==
  th[t].pc \in {"preload", "preload_store", "walk_hit_read", "save_dump"}

C8_OneAtATime ==
  useCache =>
    \A a \in Threads, b \in Threads :
      a # b => ~(InMapping(a) /\ InMapping(b))

(* C9: the x passed to the compositing task of the k-th character is the   *)
(* start position plus, for every earlier character, its own advance and   *)
(* kerning, plus the kerning and bitmap_left of the k-th character.        *)
ExpectedX(text, image_w, k) ==
  LET full == calculate_text_size(text, Len(text))
      before == calculate_text_size(text, k - 1)
      p == IF k = 1 THEN NoChar ELSE text[k - 1]
  IN ((image_w - full.width) \div 2) + before.width
       + Shr6(FaceKerning(p, text[k])) + BitmapLeft(text[k])

C9_PenPosition ==
  \A t \in Threads :
    \A k \in 1..Len(tasks[t]) :
      tasks[t][k].x = ExpectedX(th[t].text, image[t].w, k)

(* C10: with (width, height, baseline) as calculate_text_size returns      *)
(* them, every character c of the text has                                 *)
(* 0 <= height - baseline - bitmap_top(c) and                              *)
(* height - baseline - bitmap_top(c) + bitmap_rows(c) <= height.           *)
C10_GlyphRowsInsideHeight ==
  \A t \in Threads :
    th[t].pc \in {"walk_test", "join", "returned"} =>
      \A c \in Range(th[t].text) :
        LET y == th[t].height - th[t].baseline - BitmapTop(c)
        IN 0 <= y /\ y + BitmapRows(c) <= th[t].height


(* C11 as claimed: calculate_text_size returns width = the sum of the      *)
(* advances and pairwise kernings (in pixels), height = the maximum over   *)
(* the glyphs of rows - bitmap_top, baseline = the maximum over the glyphs *)
(* of -bitmap_top; on the documented scenario it returns (60, 0, -35).     *)
RECURSIVE SumWidth(_, _, _)
SumWidth(f, text, n) ==
  IF n = 0 THEN 0
  ELSE SumWidth(f, text, n - 1) + Shr6(f.glyph[text[n]].advance)
         + Shr6(FontKerning(f, IF n = 1 THEN NoChar ELSE text[n - 1], text[n]))
MaxOf(S) == CHOOSE m \in S : \A v \in S : v <= m
Extents(f, text) == {f.glyph[c].rows - f.glyph[c].top : c \in Range(text)}
Drops(f, text) == {-f.glyph[c].top : c \in Range(text)}
IsScenario ==
  /\ ms.text = <<"A", "B">>
  /\ ms.font.glyph["A"] = [advance |-> 1920, top |-> 40, rows |-> 40]
  /\ ms.font.glyph["B"] = [advance |-> 1792, top |-> 35, rows |-> 35]
  /\ ms.font.kernAB = 128

C11_MaximaOverGlyphs ==
  ms.returned =>
    /\ ms.width = SumWidth(ms.font, ms.text, Len(ms.text))
    /\ ms.height = MaxOf(Extents(ms.font, ms.text))
    /\ ms.baseline = MaxOf(Drops(ms.font, ms.text))
    /\ IsScenario => <<ms.width, ms.height, ms.baseline>> = <<60, 0, -35>>

(* C11 amended: calculate_text_size returns width = the sum of the         *)
(* advances and pairwise kernings (each shifted to pixels), height = the   *)
(* maximum of 0 and every glyph's rows - bitmap_top, baseline = the        *)
(* maximum of 0 and every glyph's -bitmap_top; on the documented scenario  *)
(* it returns (60, 0, 0).                                                  *)
C11_MaximaFromZero ==
  ms.returned =>
    /\ ms.width = SumWidth(ms.font, ms.text, Len(ms.text))
    /\ ms.height = MaxOf({0} \cup Extents(ms.font, ms.text))
    /\ ms.baseline = MaxOf({0} \cup Drops(ms.font, ms.text))
    /\ IsScenario => <<ms.width, ms.height, ms.baseline>> = <<60, 0, 0>>

(* C11 witness: the documented scenario has been measured *)
C11_Witness == ms.returned /\ IsScenario

(* C12: after every prefix of the text the height and the baseline of      *)
(* calculate_text_size are >= 0 and not smaller than after the prefix one  *)
(* character shorter, whatever the glyph metrics.                          *)
C12_RunningMaxima ==
  /\ ms.height >= 0 /\ ms.baseline >= 0
  /\ \A j \in 1..Len(ms.hist) :
       /\ ms.hist[j][1] >= 0 /\ ms.hist[j][2] >= 0
       /\ j > 1 => /\ ms.hist[j][1] >= ms.hist[j - 1][1]
                   /\ ms.hist[j][2] >= ms.hist[j - 1][2]

(* C12 witness: a glyph with bitmap_top greater than rows measured after a *)
(* glyph that reaches under the baseline                                   *)
C12_Witness ==
  /\ ms.returned /\ Len(ms.text) >= 2
  /\ ms.hist[1][1] > 0 /\ ms.hist[1][2] > 0
  /\ ms.font.glyph[ms.text[2]].top > ms.font.glyph[ms.text[2]].rows


(* C13: when render_text has returned normally on a renderer with a cache, *)
(* the cache file was written during that call, after the call's last      *)
(* insertion, and holds a mapping equal to the mapping in memory; for      *)
(* every call a caller makes, not only the first.                          *)
C13_SavedAtReturn ==
  \A t \in Threads :
    (useCache /\ th[t].pc = "returned") =>
      /\ file.exists
      /\ th[t].dict_size = Len(cache)
      /\ load_cache(file).exc = "none"
      /\ load_cache(file).cache = cache

(* C13 witness: a later call that inserted a character its predecessor had *)
(* not cached has returned                                                 *)
C13_Witness ==
  \E t \in Threads :
    /\ useCache /\ th[t].pc = "returned"
    /\ th[t].prev_text # <<>>
    /\ \E c \in Range(th[t].text) : c \notin Range(th[t].prev_text)


(* C14: a render_text call one of whose compositing tasks raised does not  *)
(* return normally (it does not go on to save and return), and when it has *)
(* raised to its caller every task submitted in the call has finished.     *)
Failed(t) == {k \in 1..Len(tasks[t]) : tasks[t][k].st = "failed"}

C14_FailureRaises ==
  \A t \in Threads :
    Failed(t) # {} =>
      /\ th[t].pc \notin {"save_open", "save_dump", "returned"}
      /\ th[t].pc = "raised" =>
           /\ th[t].exc.type = "ValueError"
           /\ \A k \in 1..Len(tasks[t]) : tasks[t][k].st \in {"done", "failed"}

(* C14 witness: a call has raised with one task failed and another done *)
C14_Witness ==
  \E t \in Threads :
    /\ th[t].pc = "raised" /\ Failed(t) # {}
    /\ \E k \in 1..Len(tasks[t]) : tasks[t][k].st = "done"

(* C15 as claimed: the error the caller receives names the codepoint of    *)
(* every failing task.                                                     *)
C15_AggregatedError ==
  \A t \in Threads :
    (th[t].pc = "raised" /\ Failed(t) # {}) =>
      th[t].exc.codepoints = {tasks[t][k].ch : k \in Failed(t)}

(* C15 amended: the caller receives the exception of the first failing     *)
(* task in submission order, as the task raised it; it names no codepoint  *)
(* and the failures of later tasks are not reported.                       *)
C15_FirstError ==
  \A t \in Threads :
    (th[t].pc = "raised" /\ Failed(t) # {}) =>
      /\ th[t].exc.type = "ValueError"
      /\ th[t].exc.task \in Failed(t)
      /\ \A k \in Failed(t) : th[t].exc.task <= k
      /\ th[t].exc.codepoints = {}

(* C15 witness: a call has raised with two failed tasks *)
C15_Witness ==
  \E t \in Threads :
    th[t].pc = "raised" /\ Cardinality(Failed(t)) >= 2


(* the glyph pixel that apply_bitmap_to_image(image, bitmap, x, y) lays    *)
(* over image pixel p, when there is one                                   *)
Over(p) == <<p[1] - ap.y, p[2] - ap.x>>
Covered(p) == Over(p) \in DOMAIN ap.bitmap.px

(* C16: a glyph pixel of alpha 255 blended onto an image pixel sets the    *)
(* three colour channels of that pixel to the glyph pixel's colour,        *)
(* whatever the background was; so does pixel_alpha_blending.              *)
C16_OpaqueGivesForeground ==
  /\ ap.called =>
       \A p \in DOMAIN ap.before.px :
         (Covered(p) /\ ap.bitmap.px[Over(p)][ALPHA_CHANNEL + 1] = 255) =>
           /\ ~ap.err
           /\ \A ch \in 1..3 : ap.image.px[p][ch] = ap.bitmap.px[Over(p)][ch]
  /\ (ap.pab # <<>> /\ ap.bitmap.px[<<0, 0>>][ALPHA_CHANNEL + 1] = 255) =>
       \A ch \in 1..3 : ap.pab[ch] = ap.bitmap.px[<<0, 0>>][ch]

(* C16 witness: an opaque glyph pixel of a colour other than white blended *)
(* onto a background that differs from it in every channel                 *)
C16_Witness ==
  /\ ap.called /\ ap.pab # <<>>
  /\ ap.bitmap.px[<<0, 0>>] = <<100, 0, 255, 255>>
  /\ ap.before.px[<<0, 0>>] = <<255, 127, 0, 40>>

(* C17: a glyph pixel of alpha 0 blended onto an image pixel leaves all    *)
(* four channels of that pixel as they were.                               *)
C17_TransparentKeepsPixel ==
  ap.called =>
    \A p \in DOMAIN ap.before.px :
      (Covered(p) /\ ap.bitmap.px[Over(p)][ALPHA_CHANNEL + 1] = 0) =>
        ~ap.err /\ ap.image.px[p] = ap.before.px[p]

(* C17 witness: a transparent glyph pixel whose colour differs from the    *)
(* background in every channel                                             *)
C17_Witness ==
  /\ ap.called
  /\ ap.bitmap.px[<<0, 0>>] = <<255, 255, 255, 0>>
  /\ ap.before.px[<<0, 0>>] = <<0, 127, 0, 40>>

(* C18: apply_bitmap_to_image leaves the 4th channel of every image pixel  *)
(* as it was before the call, for every bitmap and position.               *)
C18_AlphaChannelKept ==
  ap.called =>
    /\ DOMAIN ap.image.px = DOMAIN ap.before.px
    /\ \A p \in DOMAIN ap.before.px : ap.image.px[p][4] = ap.before.px[p][4]

(* C18 witness: a call that changed the colour of a pixel under a glyph    *)
(* pixel whose alpha differs from the pixel's own                          *)
C18_Witness ==
  /\ ap.called /\ ~ap.err
  /\ \E p \in DOMAIN ap.before.px :
       /\ Covered(p)
       /\ ap.image.px[p] # ap.before.px[p]
       /\ ap.bitmap.px[Over(p)][ALPHA_CHANNEL + 1] # ap.before.px[p][4]


(* C19: on every renderer the kerning memo holds, for each pair, the value *)
(* the font's kerning query returns for it, so get_kerning answers every   *)
(* pair with the font's value; face.get_kerning has been called at most    *)
(* once per pair, and every pair it was called with is still in the memo.  *)
KerningPairs(r) == {<<e[1], e[2]>> : e \in kerning_cache[r]}

C19_KerningOncePerPair ==
  \A r \in Renderers :
    /\ \A e \in kerning_cache[r] : e[3] = FaceKerning(e[1], e[2])
    /\ Cardinality(KerningPairs(r)) = Cardinality(kerning_cache[r])
    /\ \A pr \in KerningKeys :
         get_kerning(kerning_cache[r], pr[1], pr[2]) = FaceKerning(pr[1], pr[2])
    /\ \A pr \in KerningKeys :
         /\ kqueries[r][pr] <= 1
         /\ kqueries[r][pr] = 1 <=> pr \in KerningPairs(r)

(* C19 witness: the same two-character text rendered twice, each pair      *)
(* looked up four times and queried once                                   *)
C19_Witness ==
  \E t \in Threads :
    /\ th[t].pc = "returned" /\ th[t].prev_text = th[t].text
    /\ Len(th[t].text) = 2
    /\ Cardinality({pr \in KerningKeys : kqueries[Rend(t)][pr] = 1}) = 2

(* C20: what calculate_text_size returned for a text is the layout of that *)
(* text on the font alone, whatever was measured or rendered before and    *)
(* whatever the kerning memo and the glyph cache held; so a text measured  *)
(* in two calls gets the same (width, height, baseline) in both.           *)
Measured(t) ==
  th[t].pc \notin {"idle", "preload_lock", "preload", "preload_store", "measure"}
LayoutOf(l) == <<l.width, l.height, l.baseline>>

C20_SameLayoutEveryCall ==
  \A t \in Threads :
    Measured(t) =>
      /\ LayoutOf(th[t]) = LayoutOf(calculate_text_size(th[t].text, Len(th[t].text)))
      /\ th[t].prev_text = th[t].text => LayoutOf(th[t]) = th[t].prev_layout

(* C20 witness: a kerned text measured again after it was rendered, with   *)
(* the kerning memo and the glyph cache filled                             *)
C20_Witness ==
  \E t \in Threads :
    /\ Measured(t) /\ useCache
    /\ th[t].text = <<"A", "B">> /\ th[t].prev_text = th[t].text
    /\ LayoutOf(th[t]) = th[t].prev_layout



(* C21: once a key is in the cache mapping it stays there, and the entry   *)
(* stored under it (bitmap, left, top) is the same after every step of     *)
(* every render_text call: no step removes an item or replaces its value.  *)
C21_EntriesNeverChange ==
  [][\A j \in 1..Len(cache) : j <= Len(cache') /\ cache'[j] = cache[j]]_vars

(* C28: the glyph a renderer fetched for a character and the bitmap of     *)
(* every compositing task it submitted are the bitmap, left and top that   *)
(* its own font file gives for that character.                             *)
C28_OwnFontOnly ==
  \A t \in Threads :
    /\ th[t].pc = "walk_submit" =>
         th[t].glyph = Entry(font[Rend(t)], th[t].text[th[t].i])
    /\ \A k \in 1..Len(tasks[t]) :
         tasks[t][k].bitmap = Entry(font[Rend(t)], tasks[t][k].ch)[1]



(* C23: when the glyph rectangle intersects the image rectangle and        *)
(* crosses at least one of its edges, apply_bitmap_to_image raises no      *)
(* error, every image pixel (r, c) that the glyph rectangle covers is the  *)
(* blend of what it was with glyph pixel (r - y, c - x), and every other   *)
(* image pixel is as it was.                                               *)
PartlyOverlaps(a) ==
  /\ ~Outside(a)
  /\ \/ a.x < 0 \/ a.x + a.bitmap.width > a.before.w
     \/ a.y < 0 \/ a.y + a.bitmap.rows > a.before.h

C23_ClippedBlend ==
  (ap.called /\ PartlyOverlaps(ap)) =>
    /\ ~ap.err
    /\ DOMAIN ap.image.px = DOMAIN ap.before.px
    /\ \A p \in DOMAIN ap.before.px :
         ap.image.px[p] =
           IF Covered(p)
             THEN BlendPixel(ap.before.px[p], ap.bitmap.px[Over(p)])
             ELSE ap.before.px[p]

(* C23 witness: a glyph two rows high whose rows differ in coverage,       *)
(* placed across the top edge of an image wider than it: its second row    *)
(* changed a pixel of the image's first row, another pixel is untouched    *)
C23_Witness ==
  /\ ap.called /\ PartlyOverlaps(ap) /\ ap.y = -1
  /\ ap.bitmap = Rasterize("A")
  /\ \E p \in DOMAIN ap.before.px, q \in DOMAIN ap.before.px :
       /\ Covered(p) /\ Over(p) = <<1, 0>> /\ ap.image.px[p] # ap.before.px[p]
       /\ ~Covered(q) /\ q[1] = 0



(* C24: within one render_text call, while the pre-population pass runs    *)
(* nothing has been measured or submitted; while the text is measured the  *)
(* pass is over (with a cache every character of the text has its entry    *)
(* and the lock is released) and nothing has been submitted; a task is     *)
(* submitted only with the layout of the whole text computed; and          *)
(* save_cache runs only with one task per character submitted and every    *)
(* one of them completed.                                                  *)
C24_StepOrder ==
  \A t \in Threads :
    /\ th[t].pc \in {"preload_lock", "preload", "preload_store"} =>
         /\ LayoutOf(th[t]) = <<0, 0, 0>> /\ th[t].previous_char = NoChar
         /\ tasks[t] = <<>>
    /\ th[t].pc = "measure" =>
         /\ tasks[t] = <<>>
         /\ lock[Rend(t)] # t
         /\ useCache =>
              \A c \in Range(th[t].text) : CacheHas(cache, CacheKey(t, c))
    /\ tasks[t] # <<>> =>
         /\ Measured(t)
         /\ LayoutOf(th[t]) =
              LayoutOf(calculate_text_size(th[t].text, Len(th[t].text)))
    /\ th[t].pc \in {"save_open", "save_dump"} =>
         /\ Len(tasks[t]) = Len(th[t].text)
         /\ \A k \in 1..Len(tasks[t]) : tasks[t][k].st = "done"

(* C24 witness: a later call on a two-character text is writing the cache  *)
(* file                                                                    *)
C24_Witness ==
  \E t \in Threads :
    /\ th[t].pc = "save_dump" /\ Len(tasks[t]) = 2
    /\ th[t].prev_text # <<>>



(* C25: calculate_text_size returns as width the sum, over the characters, *)
(* of floor(advance / 64) + floor(kerning / 64), each value floored on its *)
(* own; and in render_text the pen moves from one task to the next by      *)
(* floor(kerning / 64) of the pair plus floor(advance / 64) of the glyph   *)
(* in the slot.  A kerning of -1 moves it by -1 pixel.                     *)
Floor64(v) == CHOOSE q \in (-4)..4 : 64 * q <= v /\ v < 64 * (q + 1)

RECURSIVE FlooredWidth(_, _)
FlooredWidth(text, n) ==
  IF n = 0 THEN 0
  ELSE FlooredWidth(text, n - 1) + Floor64(Advance(text[n]))
         + Floor64(FaceKerning(IF n = 1 THEN NoChar ELSE text[n - 1], text[n]))

(* the glyph in the slot while the walk is at character k: with a cache    *)
(* the last glyph calculate_text_size loaded, without one character k      *)
SlotAt(t, k) == IF useCache THEN th[t].text[Len(th[t].text)] ELSE th[t].text[k]

C25_FloorEachValue ==
  \A t \in Threads :
    /\ Measured(t) => th[t].width = FlooredWidth(th[t].text, Len(th[t].text))
    /\ \A k \in 2..Len(tasks[t]) :
         LET pen(j) == tasks[t][j].x - BitmapLeft(tasks[t][j].ch)
         IN pen(k) - pen(k - 1) =
              Floor64(Advance(SlotAt(t, k - 1)))
                + Floor64(FaceKerning(th[t].text[k - 1], th[t].text[k]))

(* C25 witness: "AB", whose pair has a kerning of -1, measured and walked  *)
(* on a renderer without a cache: advances of 140 and 100 and kernings of  *)
(* 0 and -1 give a width of 2 + 0 + 1 - 1                                  *)
C25_Witness ==
  \E t \in Threads :
    /\ ~useCache /\ th[t].text = <<"A", "B">> /\ Len(tasks[t]) = 2
    /\ th[t].width = 2
    /\ tasks[t][2].x - tasks[t][1].x = 1



GlyphAt(tk, p) == tk.bitmap.px[<<p[1] - tk.y, p[2] - tk.x>>]
CoveredBy(tk, p) == <<p[1] - tk.y, p[2] - tk.x>> \in DOMAIN tk.bitmap.px
BothDone == \A k \in 1..2 : rc.tasks[k].st = "done"
LastStored == IF rc.tasks[1].w > rc.tasks[2].w THEN 1 ELSE 2
Serial(p, first, second) ==
  BlendPixel(BlendPixel(rc.before.px[p], GlyphAt(first, p)), GlyphAt(second, p))

C22_LostUpdate ==
  BothDone =>
    LET L == rc.tasks[LastStored]
        F == rc.tasks[3 - LastStored]
    IN \A p \in DOMAIN rc.before.px :
         rc.image.px[p] =
           CASE CoveredBy(L, p) /\ CoveredBy(F, p) ->
                  IF L.r < F.w
                    THEN BlendPixel(rc.before.px[p], GlyphAt(L, p))
                    ELSE Serial(p, F, L)
             [] CoveredBy(L, p) /\ ~CoveredBy(F, p) ->
                  BlendPixel(rc.before.px[p], GlyphAt(L, p))
             [] ~CoveredBy(L, p) /\ CoveredBy(F, p) ->
                  BlendPixel(rc.before.px[p], GlyphAt(F, p))
             [] OTHER -> rc.before.px[p]

(* C22 witness: both tasks are done and a pixel both glyphs cover holds a  *)
(* value that neither order of the two blends produces                     *)
C22_Witness ==
  /\ BothDone
  /\ \E p \in DOMAIN rc.before.px :
       /\ CoveredBy(rc.tasks[1], p) /\ CoveredBy(rc.tasks[2], p)
       /\ rc.image.px[p] # Serial(p, rc.tasks[1], rc.tasks[2])
       /\ rc.image.px[p] # Serial(p, rc.tasks[2], rc.tasks[1])



(* C26: once render_captions has written a frame, the pipeline's           *)
(* BitmapCache holds an entry for every character of every caption drawn   *)
(* and its cache file holds the mapping.                                   *)
C26_PipelineCacheUsed ==
  pl.drawn # {} =>
    /\ \A d \in pl.drawn : \A c \in Range(pl.words[d[2]][3]) :
         CacheHas(cache, <<c, char_size[1]>>)
    /\ file.exists
    /\ load_cache(file).cache = cache

(* C29: when render_captions has returned, every group has its caption on  *)
(* every frame n of the video (1 <= n <= frames) with                      *)
(* max(1, floor(start * framerate)) <= n < floor(end * framerate).         *)
FloorFrame(h, framerate) ==
  CHOOSE q \in 0..(MaxTime * 2) : 2 * q <= h * framerate /\ h * framerate < 2 * (q + 1)
InRange(n, w, framerate) ==
  /\ Max(1, FloorFrame(w[1], framerate)) <= n
  /\ n < FloorFrame(w[2], framerate)

C29_EveryFrameInRange ==
  pl.pc = "done" =>
    \A g \in 1..Len(pl.words), n \in 1..pl.frames :
      InRange(n, pl.words[g], pl.framerate) => <<n, g>> \in pl.drawn

=============================================================================
